---------------------------- MODULE Spec2Model ----------------------------
(***************************************************************************)
(* Retirement calculator of src/src/App.jsx: the monthly projection engine *)
(* simulate and the sustainable-spend solver built on it.                  *)
(*                                                                         *)
(* Number representation.  The program computes with IEEE doubles; the     *)
(* model computes with fixed-point integers and rounds after every         *)
(* operation, as a double operation does:                                  *)
(*   money   : MoneyScale grid units per currency unit                     *)
(*   rates   : RateScale units per 1.0 (a fraction 0.08 is 800 at 10000)   *)
(*   ages    : AgeScale units per year, so that a month (1/12 year) and    *)
(*             the solver's tolerance (0.1 year) are both whole            *)
(*   percent : PctScale units per percentage point                         *)
(***************************************************************************)
EXTENDS Integers, Sequences, FiniteSets, TLC

VARIABLES pA, pB, kind, dA, dB, m, sA, sB, outA, outB, pc,
          app, spc, zero, lo, hi, i, ret, path, calls

evars == <<pA, pB, kind, dA, dB, m, sA, sB, outA, outB, pc>>
svars == <<app, spc, zero, lo, hi, i, ret, path, calls>>
vars == <<pA, pB, kind, dA, dB, m, sA, sB, outA, outB, pc,
          app, spc, zero, lo, hi, i, ret, path, calls>>

-----------------------------------------------------------------------------
(* Scales of the fixed-point representation and bounds of the input sets.  *)

MoneyScale == 24
RateScale == 10000
PctScale == 100
MonthsPerYear == 12
AgeScale == MonthsPerYear * 5
MaxHorizonHalfYears == 4
MaxDelayHalfYears == 2
MaxSpanYears == 2

Year == AgeScale
Cur(x) == x * MoneyScale

-----------------------------------------------------------------------------
(* Arithmetic of the program on the fixed-point grid.                      *)

Null == <<>>

Max(a, b) == IF a >= b THEN a ELSE b
Min(a, b) == IF a <= b THEN a ELSE b

(* Math.round(a / b) for b > 0: the nearest integer, halves rounded up.    *)
Rnd(a, b) == (a \div b) + (IF 2 * (a % b) >= b THEN 1 ELSE 0)

(* Math.floor(a / b) for b > 0.                                            *)
Floor(a, b) == a \div b

(* x * f for a money amount x and a rate-scaled factor f >= 0, rounded to  *)
(* the money grid.                                                         *)
MulFix(x, f) == (x \div RateScale) * f + Rnd((x % RateScale) * f, RateScale)

(* x / f for a money amount x and a rate-scaled factor f > 0, rounded.     *)
DivFix(x, f) == (x \div f) * RateScale + Rnd((x % f) * RateScale, f)

(* Math.pow(f, n) for a rate-scaled f and a whole n >= 0, by squaring.     *)
RECURSIVE Pow(_, _)
Pow(f, n) ==
  IF n = 0 THEN RateScale
  ELSE IF n % 2 = 0 THEN LET h == Pow(f, n \div 2) IN MulFix(h, h)
  ELSE MulFix(Pow(f, n - 1), f)

(* Math.pow(a, 1 / 12) for a rate-scaled a >= 0: the largest grid value    *)
(* whose twelfth power does not exceed a, found between lw and up.         *)
RECURSIVE Root12In(_, _, _)
Root12In(a, lw, up) ==
  IF up - lw <= 1 THEN lw
  ELSE LET mid == (lw + up) \div 2
       IN IF Pow(mid, MonthsPerYear) <= a THEN Root12In(a, mid, up)
          ELSE Root12In(a, lw, mid)

Root12(a) == Root12In(a, 0, 2 * RateScale)

(* Twelfth roots of 1 + annual for the annual rates the scenarios below    *)
(* work with: the floor of -0.99 and the rates from -0.02 to 0.1.          *)
RootTable ==
  [annual \in {Rnd(-99 * RateScale, 100)}
                \cup (-(RateScale \div 50))..(RateScale \div 10) |->
     Root12(RateScale + annual)]

(* JavaScript truthiness of a nullable number: null and 0 are falsy.       *)
Falsy(v) == v = Null \/ v = <<0>>

-----------------------------------------------------------------------------
(* simulate: the monthly projection engine.                                *)
(* A parameter record p has the fields of simulate's argument: ages and    *)
(* years in AgeScale units, money on the money grid, rates rate-scaled.    *)

(* Months without the floor at 1.                                          *)
MonthsUnfloored(horizonYears) == Rnd(horizonYears * MonthsPerYear, AgeScale)

(* const months = Math.max(1, Math.round(horizonYears * 12))               *)
Months(horizonYears) == Max(1, Rnd(horizonYears * MonthsPerYear, AgeScale))

(* NetRate without the floor at -0.99.                                     *)
NetRateUnfloored(gross, fee) == gross - fee

(* NetRate with the fee added to the return instead of subtracted.         *)
NetRateFeeAdded(gross, fee) == Max(Rnd(-99 * RateScale, 100), gross + fee)

(* Math.max(-0.99, gross - fee)                                            *)
NetRate(gross, fee) == Max(Rnd(-99 * RateScale, 100), gross - fee)

(* (1 + postRealAnnualGross) * (1 + inflationAnnual) - 1                   *)
PostNominal(real, infl) ==
  Rnd((RateScale + real) * (RateScale + infl), RateScale) - RateScale

(* Math.pow(1 + annual, 1 / 12) - 1.  The roots of the annual rates in     *)
(* RootTable are computed once and looked up; any other rate is computed   *)
(* on the spot, by the same Root12.                                        *)
MonthlyRate(annual) ==
  (IF annual \in DOMAIN RootTable THEN RootTable[annual]
   ELSE Root12(RateScale + annual)) - RateScale

(* Math.max(0, Math.round(years * 12)), for toRet and dly                  *)
WholeMonths(years) == Max(0, Rnd(years * MonthsPerYear, AgeScale))

(* The constants simulate derives from its argument before the loop.       *)
Derive(p) ==
  LET preNet == NetRate(p.preAnnualGross, p.feeAnnualPre)
      postNominal == PostNominal(p.postRealAnnualGross, p.inflationAnnual)
      postNet == NetRate(postNominal, p.feeAnnualPost)
  IN [months |-> Months(p.horizonYears),
      mPre |-> MonthlyRate(preNet),
      mPost |-> MonthlyRate(postNet),
      mInfl |-> MonthlyRate(p.inflationAnnual),
      mFix |-> Rnd(Max(0, p.fixedFeeAnnual), MonthsPerYear),
      toRet |-> WholeMonths(p.retirementAge - p.currentAge),
      dly |-> WholeMonths(p.delayYears)]

(* Contribution paid after the delay in either phase.                      *)
ContributionAnyPhase(pre, mm, dly, monthlySave) ==
  IF mm > dly THEN monthlySave ELSE 0

(* Contribution paid during the delay instead of after it.                 *)
ContributionInDelay(pre, mm, dly, monthlySave) ==
  IF pre /\ mm <= dly THEN monthlySave ELSE 0

(* const c = pre && m > dly ? monthlySave : 0                              *)
Contribution(pre, mm, dly, monthlySave) ==
  IF pre /\ mm > dly THEN monthlySave ELSE 0

(* Withdrawal made in every month, before retirement as well.              *)
WithdrawalEveryMonth(msr, annualSpendToday, mInfl) ==
  MulFix(Rnd(annualSpendToday, MonthsPerYear), Pow(RateScale + mInfl, msr))

(* Withdrawal with the sign of the amount inverted.                        *)
WithdrawalNegated(msr, annualSpendToday, mInfl) ==
  IF msr > 0
  THEN -MulFix(Rnd(annualSpendToday, MonthsPerYear), Pow(RateScale + mInfl, msr))
  ELSE 0

(* const sp = msr > 0 ? (annualSpendToday / 12) * Math.pow(1 + mInfl, msr) *)
(*                    : 0                                                  *)
Withdrawal(msr, annualSpendToday, mInfl) ==
  IF msr > 0
  THEN MulFix(Rnd(annualSpendToday, MonthsPerYear), Pow(RateScale + mInfl, msr))
  ELSE 0

(* Update with the withdrawal added to the balance.                        *)
UpdateSpendAdded(bal, r, c, sp, mFix) ==
  MulFix(bal, RateScale + r) + c + sp - mFix

(* bal = bal * (1 + r) + c - sp - mFix                                     *)
Update(bal, r, c, sp, mFix) == MulFix(bal, RateScale + r) + c - sp - mFix

(* Deplete that records every month at or below zero, not only the first.  *)
DepleteEvery(bal, dep, age) == IF bal <= 0 THEN <<age>> ELSE dep

(* if (bal <= 0 && !dep) dep = age                                         *)
Deplete(bal, dep, age) == IF bal <= 0 /\ Falsy(dep) THEN <<age>> ELSE dep

(* Clamp left out.                                                         *)
ClampOff(bal) == bal

(* if (bal < 0) bal = 0                                                    *)
Clamp(bal) == IF bal < 0 THEN 0 ELSE bal

(* The state of the loop before month 1: bal, dep and the first row.       *)
Start(p) ==
  LET bal == Max(0, p.startAssets)
  IN [bal |-> bal, raw |-> bal, dep |-> Null,
      rows |-> <<[age |-> Floor(p.currentAge, AgeScale),
                  nominal |-> bal, real |-> bal]>>]

(* One iteration of the loop, for month mm, from loop state s.  The field  *)
(* raw keeps the balance of this month before the clamp.                   *)
Month(s, p, d, mm) ==
  LET age == p.currentAge + Rnd(mm * AgeScale, MonthsPerYear)
      pre == mm <= d.toRet
      r == IF pre THEN d.mPre ELSE d.mPost
      c == Contribution(pre, mm, d.dly, p.monthlySave)
      msr == Max(0, mm - d.toRet)
      sp == Withdrawal(msr, p.annualSpendToday, d.mInfl)
      raw == Update(s.bal, r, c, sp, d.mFix)
      bal == Clamp(raw)
  IN [bal |-> bal,
      raw |-> raw,
      dep |-> Deplete(raw, s.dep, age),
      rows |-> IF mm % MonthsPerYear = 0
               THEN Append(s.rows,
                           [age |-> Floor(age, AgeScale),
                            nominal |-> bal,
                            real |-> DivFix(bal, Pow(RateScale + d.mInfl, mm))])
               ELSE s.rows]

(* The object simulate returns from the final loop state.                  *)
Result(s) ==
  [rows |-> s.rows,
   endNom |-> s.bal,
   endReal |-> IF Len(s.rows) = 0 THEN s.bal ELSE s.rows[Len(s.rows)].real,
   depletedAge |-> IF Falsy(s.dep) THEN Null
                   ELSE <<Floor(s.dep[1], AgeScale)>>,
   depletedAgeExact |-> s.dep]

(* The iterations of the loop for the months from..to, in order, from     *)
(* loop state s.  The range is split in halves, and the test half = half   *)
(* makes TLC evaluate the first half before the second, only to keep the   *)
(* depth of the evaluation logarithmic in the number of months; the months *)
(* are applied one after the other.                                        *)
RECURSIVE Loop(_, _, _, _, _)
Loop(s, p, d, from, to) ==
  IF from > to THEN s
  ELSE IF from = to THEN Month(s, p, d, from)
  ELSE LET mid == (from + to) \div 2
           half == Loop(s, p, d, from, mid)
       IN IF half = half THEN Loop(half, p, d, mid + 1, to) ELSE s

(* simulate as a function of its argument.                                 *)
simulate(p) ==
  LET d == Derive(p) IN Result(Loop(Start(p), p, d, 1, d.months))

-----------------------------------------------------------------------------
(* Two calls of simulate whose arguments differ in one field, run month by *)
(* month side by side: pA is the base call, pB the variant named by kind.  *)

Ages == {40 * Year + Year \div 2}
RetireAfter == {0, Year}
Horizons == {h * (Year \div 2) : h \in 0..MaxHorizonHalfYears}
StartAssets == {Cur(-5), 0, Cur(1000)}
MonthlySaves == {Cur(-50), Cur(50)}
PreGross == {-15000, 800}
PostReal == {250}
Inflations == {0, 200}
Spends == {0, Cur(600)}
Fees == {20}
FixedFees == {0, Cur(120)}
Kinds == {"delay", "fees", "spend", "late"}

BaseParams ==
  {[currentAge |-> a, retirementAge |-> a + r, horizonYears |-> h,
    startAssets |-> st, monthlySave |-> sv, preAnnualGross |-> g,
    postRealAnnualGross |-> pr, inflationAnnual |-> inf,
    annualSpendToday |-> sp, delayYears |-> 0,
    feeAnnualPre |-> f, feeAnnualPost |-> f, fixedFeeAnnual |-> fx] :
     a \in Ages, r \in RetireAfter, h \in Horizons, st \in StartAssets,
     sv \in MonthlySaves, g \in PreGross, pr \in PostReal, inf \in Inflations,
     sp \in Spends, f \in Fees, fx \in FixedFees}

(* The first call of a pair.  For the kind "late" it has a delay that is   *)
(* not shorter than the time to retirement; otherwise it is the base call. *)
Bases(base, k) ==
  IF k = "late"
  THEN {[base EXCEPT !.delayYears = h * (Year \div 2)] :
          h \in {x \in 1..MaxDelayHalfYears :
                   WholeMonths(x * (Year \div 2))
                     >= WholeMonths(base.retirementAge - base.currentAge)}}
  ELSE {base}

(* The variant calls of a base call, as runTests builds them: a delay, a   *)
(* higher fee in either phase or both, a higher spend; for the kind "late" *)
(* the same call without contributions, or with another delay that is not  *)
(* shorter than the time to retirement.                                    *)
Variants(base, k) ==
  CASE k = "delay" ->
         {[base EXCEPT !.delayYears = h * (Year \div 2)] :
            h \in 1..MaxDelayHalfYears}
    [] k = "fees" ->
         {[base EXCEPT !.feeAnnualPre = @ + dpre, !.feeAnnualPost = @ + dpost] :
            dpre \in {0, 180}, dpost \in {0, 180}}
         \ {base}
    [] k = "spend" ->
         {[base EXCEPT !.annualSpendToday = sp] :
            sp \in {x \in {Cur(600), Cur(60000)} : x > base.annualSpendToday}}
    [] k = "late" ->
         ({[base EXCEPT !.monthlySave = 0]}
          \cup {b \in Bases([base EXCEPT !.delayYears = 0], k) : b # base})

EngineIdle ==
  /\ pA = Null /\ pB = Null /\ kind = "none" /\ dA = Null /\ dB = Null
  /\ m = 0 /\ sA = Null /\ sB = Null /\ outA = Null /\ outB = Null
  /\ pc = "idle"

SolverIdle ==
  /\ app = Null /\ spc = "idle" /\ zero = Null /\ lo = 0 /\ hi = 0 /\ i = 0
  /\ ret = Null /\ path = "none" /\ calls = 0

Init ==
  /\ \E base \in BaseParams, k \in Kinds :
       \E a \in Bases(base, k) :
         \E b \in Variants(a, k) :
           /\ pA = a /\ pB = b /\ kind = k
           /\ dA = Derive(a) /\ dB = Derive(b)
           /\ sA = Start(a) /\ sB = Start(b)
  /\ m = 0 /\ outA = Null /\ outB = Null /\ pc = "loop"
  /\ SolverIdle

(* for (let m = 1; m <= months; m++) { ... }                               *)
SimLoop ==
  /\ pc = "loop" /\ m < dA.months
  /\ m' = m + 1
  /\ sA' = Month(sA, pA, dA, m + 1)
  /\ sB' = Month(sB, pB, dB, m + 1)
  /\ UNCHANGED <<pA, pB, kind, dA, dB, outA, outB, pc>>
  /\ UNCHANGED svars

(* return { rows, endNom, endReal, depletedAge, depletedAgeExact }         *)
SimReturn ==
  /\ pc = "loop" /\ m = dA.months
  /\ outA' = Result(sA) /\ outB' = Result(sB)
  /\ pc' = "done"
  /\ UNCHANGED <<pA, pB, kind, dA, dB, m, sA, sB>>
  /\ UNCHANGED svars

Next == SimLoop \/ SimReturn

Spec == Init /\ [][Next]_vars

-----------------------------------------------------------------------------
(* sustainableSpendToday: the solver, a useMemo callback of App.  app is   *)
(* the component state it reads; the state may come from the controls or   *)
(* from applyState (the URL parameter, local storage), which sets each     *)
(* field to whatever the stored object holds.                              *)

hiStart == 100000
maxSpend == 50000000
bisectIters == 34

(* tol = 0.1 (years)                                                       *)
tol == Rnd(AgeScale, 10)

(* x / 100, from percentage points to a fraction                           *)
Pct(x) == Rnd(x * RateScale, 100 * PctScale)

(* const horizonYears = Math.max(1, lifeExpectancy - currentAge)           *)
HorizonYears(a) == Max(Year, a.lifeExpectancy - a.currentAge)

(* The parameter object p of the solver, with the candidate spend s.       *)
SolverParams(a, s) ==
  [currentAge |-> a.currentAge,
   retirementAge |-> a.retirementAge,
   horizonYears |-> HorizonYears(a),
   startAssets |-> Max(0, a.initialAmount),
   monthlySave |-> a.monthlySave,
   preAnnualGross |-> Pct(Max(0, a.returnPa)),
   postRealAnnualGross |-> Pct(a.postRetRealPa),
   inflationAnnual |-> Pct(Max(0, a.inflationPa)),
   annualSpendToday |-> s,
   delayYears |-> Max(0, a.delayYears),
   feeAnnualPre |-> Pct(Max(0, a.diyFeePct)),
   feeAnnualPost |-> Pct(Max(0, a.diyFeePct)),
   fixedFeeAnnual |-> 0]

(* const sim = (s) => simulate({ ...p, annualSpendToday: s })              *)
sim(a, s) == simulate(SolverParams(a, s))

(* zero.depletedAge && zero.depletedAge <= lifeExpectancy                  *)
ZeroDepleted(z, lifeExpectancy) ==
  /\ ~Falsy(z.depletedAge)
  /\ z.depletedAge[1] * AgeScale <= lifeExpectancy

(* d >= lifeExpectancy - tol, d = Infinity when depletedAgeExact is null   *)
LastsTo(t, lifeExpectancy) ==
  \/ t.depletedAgeExact = Null
  \/ t.depletedAgeExact[1] >= lifeExpectancy - tol

(* const lasts = (s) => { const t = sim(s); ... }                          *)
lasts(a, s) == LastsTo(sim(a, s), a.lifeExpectancy)

(* const m = (lo + hi) / 2                                                 *)
Mid(l, h) == (l + h) \div 2

(* Narrow with the two branches exchanged.                                 *)
NarrowSwapped(l, h, mid, ok) == IF ok THEN <<l, mid>> ELSE <<mid, h>>

(* if (lasts(m)) lo = m; else hi = m;  as the pair <<lo, hi>>              *)
Narrow(l, h, mid, ok) == IF ok THEN <<mid, h>> ELSE <<l, mid>>

(* Math.round(lo), in grid units                                           *)
Rounded(l) == Rnd(l, MoneyScale) * MoneyScale

(* <<currentAge, retirementAge, lifeExpectancy>>                           *)
SolverAges ==
  {<<0, Year, Year>>, <<0, Year, tol>>}
  \cup {<<40 * Year, 40 * Year + r, (40 + span) * Year>> :
           r \in {0, Year}, span \in 1..MaxSpanYears}

AppStates ==
  {[currentAge |-> ag[1], retirementAge |-> ag[2], lifeExpectancy |-> ag[3],
    initialAmount |-> ia, monthlySave |-> sv, returnPa |-> rp,
    postRetRealPa |-> pr, inflationPa |-> inf, delayYears |-> dl,
    diyFeePct |-> fee] :
     ag \in SolverAges,
     ia \in {0, Cur(11), Cur(200000), Cur(30000000), Cur(50000000)},
     sv \in {Cur(-1), 0, Cur(1500)},
     rp \in {0, 8 * PctScale},
     pr \in {(5 * PctScale) \div 2},
     inf \in {0, 2 * PctScale},
     dl \in {0, Year \div 2},
     fee \in {PctScale \div 5}}

SolverInit ==
  /\ app \in AppStates
  /\ spc = "zero" /\ zero = Null /\ lo = 0 /\ hi = 0 /\ i = 0
  /\ ret = Null /\ path = "none" /\ calls = 0
  /\ EngineIdle

(* The position of the callback: before its first call of sim; at a test   *)
(* of the while condition; past the loop with hi >= max; past it with hi   *)
(* below max and bisection steps left (i < 34); after the last step.       *)
AtZero == spc = "zero"
AtWhile == spc = "bracket"
AtCeiling == spc = "bracketed" /\ hi >= Cur(maxSpend)
AtStep ==
  spc \in {"bracketed", "bisect"} /\ hi < Cur(maxSpend) /\ i < bisectIters
AtEnd == spc = "bisect" /\ i = bisectIters

(* const zero = sim(0); if (...) return 0; let lo = 0, hi = 100000, ...    *)
SolveZero ==
  /\ AtZero
  /\ LET z == sim(app, 0)
     IN /\ zero' = z
        /\ IF ZeroDepleted(z, app.lifeExpectancy)
           THEN /\ ret' = <<0>> /\ path' = "zero" /\ spc' = "done"
                /\ UNCHANGED <<lo, hi>>
           ELSE /\ lo' = 0 /\ hi' = Cur(hiStart) /\ spc' = "bracket"
                /\ UNCHANGED <<ret, path>>
  /\ calls' = calls + 1
  /\ UNCHANGED <<app, i>>
  /\ UNCHANGED evars

(* Grow that leaves the bound as it is.                                    *)
GrowStuck(h) == h

(* hi *= 2                                                                 *)
Grow(h) == h * 2

(* One test of: while (lasts(hi) && hi < max) hi *= 2;                     *)
Bracket ==
  /\ AtWhile
  /\ IF lasts(app, hi) /\ hi < Cur(maxSpend)
     THEN /\ hi' = Grow(hi) /\ spc' = "bracket"
     ELSE /\ hi' = hi /\ spc' = "bracketed"
  /\ calls' = calls + 1
  /\ UNCHANGED <<app, zero, lo, i, ret, path>>
  /\ UNCHANGED evars

(* if (hi >= max) return hi;                                               *)
ReturnCeiling ==
  /\ AtCeiling
  /\ ret' = <<hi>> /\ path' = "ceiling" /\ spc' = "done"
  /\ UNCHANGED <<app, zero, lo, hi, i, calls>>
  /\ UNCHANGED evars

(* for (let i = 0; i < 34; i++) { const m = ...; if (lasts(m)) ... }       *)
Bisect ==
  /\ AtStep
  /\ LET mid == Mid(lo, hi)
         nxt == Narrow(lo, hi, mid, lasts(app, mid))
     IN lo' = nxt[1] /\ hi' = nxt[2]
  /\ i' = i + 1 /\ spc' = "bisect"
  /\ calls' = calls + 1
  /\ UNCHANGED <<app, zero, ret, path>>
  /\ UNCHANGED evars

(* return Math.round(lo);                                                  *)
ReturnRounded ==
  /\ AtEnd
  /\ ret' = <<Rounded(lo)>> /\ path' = "bisect" /\ spc' = "done"
  /\ UNCHANGED <<app, zero, lo, hi, i, calls>>
  /\ UNCHANGED evars

SolverNext ==
  SolveZero \/ Bracket \/ ReturnCeiling \/ Bisect \/ ReturnRounded

SolverSpec == SolverInit /\ [][SolverNext]_vars

-----------------------------------------------------------------------------
(* Properties of simulate, checked under Spec.                             *)

RowsNonNegative(rows) ==
  \A k \in 1..Len(rows) : rows[k].nominal >= 0 /\ rows[k].real >= 0

(* C1: in every call of simulate the balance after each monthly step, the  *)
(* nominal and real balance of every point of rows, and endNom are >= 0.   *)
C1_NonNegative ==
  /\ sA.bal >= 0 /\ sB.bal >= 0
  /\ RowsNonNegative(sA.rows) /\ RowsNonNegative(sB.rows)
  /\ pc = "done" =>
       /\ outA.endNom >= 0 /\ outB.endNom >= 0
       /\ RowsNonNegative(outA.rows) /\ RowsNonNegative(outB.rows)

(* A month whose update went below zero, was clamped, and was recorded as  *)
(* an annual point.                                                        *)
C1_Witness ==
  /\ m > 0 /\ m % MonthsPerYear = 0
  /\ sA.raw < 0 /\ sA.bal = 0
  /\ sA.rows[Len(sA.rows)].nominal = 0

(* C8: of two calls that differ only in delayYears (0 against d > 0), with *)
(* monthlySave > 0 and preAnnualGross >= 0, the undelayed call ends with   *)
(* an endNom at least that of the delayed call.                            *)
C8_DelayNeverGains ==
  (pc = "done" /\ kind = "delay" /\ pA.monthlySave > 0
   /\ pA.preAnnualGross >= 0)
    => outA.endNom >= outB.endNom

(* The delay withheld contributions and the delayed call ended lower.      *)
C8_Witness ==
  /\ pc = "done" /\ kind = "delay" /\ pA.monthlySave > 0
  /\ pA.preAnnualGross >= 0 /\ pB.delayYears > 0
  /\ outA.endNom > outB.endNom

(* The constraints the data model puts on simulate's argument.             *)
Valid(p) ==
  /\ p.currentAge >= 0 /\ p.retirementAge > p.currentAge
  /\ p.horizonYears > 0 /\ p.startAssets >= 0 /\ p.monthlySave >= 0
  /\ p.preAnnualGross >= 0 /\ p.inflationAnnual >= 0
  /\ p.annualSpendToday >= 0 /\ p.delayYears >= 0
  /\ p.feeAnnualPre >= 0 /\ p.feeAnnualPost >= 0 /\ p.fixedFeeAnnual >= 0

(* C9 as stated, for arguments within the data model's constraints: of two *)
(* calls that differ only in the fees, the call with the higher fees ends  *)
(* with a strictly smaller endNom.                                         *)
C9_FeesStrictlyLower ==
  (pc = "done" /\ kind = "fees" /\ Valid(pA) /\ Valid(pB))
    => outB.endNom < outA.endNom

(* C9 amended: the call with the higher fees never ends with a larger      *)
(* endNom (the two are equal when the balance is zero at the end, or when  *)
(* the raised fee belongs to a phase with no month in it).                 *)
C9_FeesNeverHigher ==
  (pc = "done" /\ kind = "fees") => outB.endNom <= outA.endNom

(* Higher fees, and a strictly smaller endNom.                             *)
C9_Witness ==
  /\ pc = "done" /\ kind = "fees"
  /\ pB.feeAnnualPre > pA.feeAnnualPre /\ pB.feeAnnualPost > pA.feeAnnualPost
  /\ outB.endNom < outA.endNom

(* C10: of two calls that differ only in annualSpendToday (0 against a     *)
(* positive amount), the call that spends ends with an endNom no larger.   *)
C10_SpendNeverGains ==
  (pc = "done" /\ kind = "spend") => outB.endNom <= outA.endNom

(* Withdrawals were made and the spending call ended strictly lower.       *)
C10_Witness ==
  /\ pc = "done" /\ kind = "spend"
  /\ pA.annualSpendToday = 0 /\ pB.annualSpendToday > 0
  /\ dB.months > dB.toRet
  /\ outB.endNom < outA.endNom

-----------------------------------------------------------------------------
(* Properties of the solver, checked under SolverSpec.                     *)

(* Component state within the constraints of the data model.               *)
ValidApp(a) ==
  /\ a.currentAge >= 0 /\ a.retirementAge > a.currentAge
  /\ a.initialAmount >= 0 /\ a.monthlySave >= 0 /\ a.returnPa >= 0
  /\ a.inflationPa >= 0 /\ a.delayYears >= 0 /\ a.diyFeePct >= 0

(* Valid state in which the life expectancy lies after the retirement age, *)
(* as the Life Expectancy control sets it.                                 *)
Plausible(a) == ValidApp(a) /\ a.lifeExpectancy > a.retirementAge

(* C2 as stated, for state within the data model's constraints: when zero  *)
(* spend is feasible and the solver returns through the bisection, the     *)
(* value v it returns satisfies lasts(v) and is not greater than the final *)
(* lower bound lo.                                                         *)
C2_BisectionResultFeasible ==
  (path = "bisect" /\ Plausible(app) /\ lasts(app, 0))
    => (lasts(app, ret[1]) /\ ret[1] <= lo)

(* C3: when the solver returns v through the bisection, the next whole     *)
(* currency amount above v is infeasible: lasts(v + 1) is false.           *)
C3_NextAboveInfeasible ==
  path = "bisect" => ~lasts(app, ret[1] + Cur(1))

(* The bisection returned a positive, feasible v.                          *)
C3_Witness ==
  /\ path = "bisect" /\ ret[1] > 0 /\ i = bisectIters
  /\ lasts(app, ret[1])

(* C4 as stated, for state within the data model's constraints and a       *)
(* result that is not the infeasible scenario's 0: simulate with the       *)
(* returned spend is never depleted before the life expectancy.            *)
C4_ResultNeverDepletesEarly ==
  (path \in {"bisect", "ceiling"} /\ Plausible(app)) =>
    LET t == sim(app, ret[1])
    IN \/ t.depletedAgeExact = Null
       \/ t.depletedAgeExact[1] >= app.lifeExpectancy

(* C5 as stated, for state within the data model's constraints: the       *)
(* solver returns 0 whenever the zero-spend projection is depleted before  *)
(* the life expectancy.                                                    *)
C5_ZeroWhenInfeasible ==
  (spc = "done" /\ ValidApp(app) /\ zero.depletedAgeExact # Null
   /\ zero.depletedAgeExact[1] < app.lifeExpectancy)
    => ret = <<0>>

(* C6 as stated, for state within the data model's constraints: the value *)
(* the solver returns never exceeds the ceiling of 5 * 10^7.               *)
C6_ResultWithinCeiling ==
  (spc = "done" /\ Plausible(app)) => ret[1] <= Cur(maxSpend)

(* C7 as stated, for state within the data model's constraints: a value   *)
(* returned through the ceiling path satisfies lasts.                      *)
C7_CeilingResultFeasible ==
  (path = "ceiling" /\ Plausible(app)) => lasts(app, ret[1])

-----------------------------------------------------------------------------
(* Further properties of simulate, checked under Spec.                     *)

(* C11 as stated, for arguments within the data model's constraints: with  *)
(* inflationAnnual = 0 simulate returns endReal equal to endNom, whatever  *)
(* the length of the horizon.                                              *)
C11_ZeroInflationRealIsNominal ==
  (pc = "done" /\ Valid(pA) /\ pA.inflationAnnual = 0)
    => outA.endReal = outA.endNom

(* C12 as stated, for arguments within the data model's constraints: with  *)
(* inflationAnnual > 0 simulate returns endReal <= endNom, also when the   *)
(* balance falls after the last annual point.                              *)
C12_RealAtMostNominal ==
  (pc = "done" /\ Valid(pA) /\ pA.inflationAnnual > 0)
    => outA.endReal <= outA.endNom

(* C13 as stated, for arguments within the data model's constraints: once  *)
(* the balance is zero after some month of a run, it is zero after every   *)
(* later month of that run.                                                *)
C13_ZeroIsSticky ==
  [][(pc = "loop" /\ m >= 1 /\ Valid(pB) /\ sB.bal = 0) => sB'.bal = 0]_vars

(* Depletion ages in order, a run never depleted counting as infinity.     *)
NoLater(x, y) == y = Null \/ (x # Null /\ x[1] <= y[1])

(* C14: of two calls that differ only in annualSpendToday, the call with   *)
(* the higher spend is depleted no later than the other (never depleted    *)
(* counting as infinity), in every month and in the result, so that if the *)
(* higher spend lasts to an age the lower spend lasts to it as well.       *)
C14_DepletionMonotoneInSpend ==
  kind = "spend" =>
    /\ NoLater(sB.dep, sA.dep)
    /\ pc = "done" =>
         /\ NoLater(outB.depletedAgeExact, outA.depletedAgeExact)
         /\ \A le \in {pA.currentAge + k * (Year \div 2) :
                          k \in 0..(MaxHorizonHalfYears + 1)} :
              LastsTo(outB, le) => LastsTo(outA, le)

(* The higher spend was depleted strictly earlier than the lower spend,    *)
(* which was depleted as well.                                             *)
C14_Witness ==
  /\ pc = "done" /\ kind = "spend"
  /\ pA.annualSpendToday > 0 /\ pB.annualSpendToday > pA.annualSpendToday
  /\ outA.depletedAgeExact # Null /\ outB.depletedAgeExact # Null
  /\ outB.depletedAgeExact[1] < outA.depletedAgeExact[1]

(* The depletion record after a month, from the record before it and the   *)
(* month's balance before the clamp, as C15 states it.                     *)
FirstRecord(before, raw, p, mm) ==
  IF before # Null THEN before
  ELSE IF raw <= 0 THEN <<p.currentAge + Rnd(mm * AgeScale, MonthsPerYear)>>
  ELSE Null

(* The depletion fields of a result, from the record of the loop.          *)
RecordReturned(out, dep) ==
  /\ out.depletedAgeExact = dep
  /\ out.depletedAge = IF dep = Null THEN Null ELSE <<Floor(dep[1], AgeScale)>>

(* C15: for currentAge >= 0, depletedAgeExact is currentAge + m/12 for the *)
(* first month m whose balance before the clamp is <= 0 and null when      *)
(* there is none, a later month never overwrites it, and depletedAge is    *)
(* its floor, null exactly when it is null.                                *)
C15_FirstDepletionRecorded ==
  /\ [](m = 0 => (sA.dep = Null /\ sB.dep = Null))
  /\ [][(pc = "loop" /\ m' = m + 1) =>
          /\ sA'.dep = FirstRecord(sA.dep, sA'.raw, pA, m')
          /\ sB'.dep = FirstRecord(sB.dep, sB'.raw, pB, m')]_vars
  /\ [](pc = "done" =>
          /\ RecordReturned(outA, sA.dep)
          /\ RecordReturned(outB, sB.dep))

(* A run was depleted in an earlier month, the balance is at zero again in *)
(* a later month, and the first record stands.                             *)
C15_Witness ==
  /\ pc = "loop" /\ sA.dep # Null /\ sA.raw <= 0
  /\ sA.dep[1] < pA.currentAge + Rnd(m * AgeScale, MonthsPerYear)
  /\ sA.dep[1] > pA.currentAge + Rnd(AgeScale, MonthsPerYear)

(* C18: rows has 1 + floor(M/12) points for M = max(1, round(horizonYears  *)
(* * 12)) months run; the first has age floor(currentAge) and nominal =    *)
(* real = max(0, startAssets); a point is appended at each month that is a *)
(* multiple of 12 and at no other; a horizon <= 0 is run as one month and  *)
(* yields the starting point only.                                         *)
C18_RowsShape ==
  /\ Len(sA.rows) = 1 + m \div MonthsPerYear
  /\ sA.rows[1] = [age |-> pA.currentAge \div AgeScale,
                   nominal |-> Max(0, pA.startAssets),
                   real |-> Max(0, pA.startAssets)]
  /\ \A k \in 2..Len(sA.rows) :
       sA.rows[k].age = (pA.currentAge + (k - 1) * Year) \div AgeScale
  /\ pc = "done" =>
       /\ m = Max(1, Rnd(pA.horizonYears * MonthsPerYear, AgeScale))
       /\ outA.rows = sA.rows
       /\ pA.horizonYears <= 0 => (m = 1 /\ Len(outA.rows) = 1)

(* A horizon of zero years returned the starting point after one month.    *)
C18_Witness ==
  /\ pc = "done" /\ pA.horizonYears = 0 /\ m = 1 /\ Len(outA.rows) = 1

(* C19 as stated, for arguments within the data model's constraints: when  *)
(* the horizon is shorter than 12 months, endReal is the final nominal     *)
(* balance endNom.                                                         *)
C19_ShortHorizonRealIsNominal ==
  (pc = "done" /\ Valid(pA) /\ dA.months < MonthsPerYear)
    => outA.endReal = outA.endNom

(* C20: a call whose delay is not shorter than the time to retirement      *)
(* returns what the same call returns with monthlySave = 0, and what it    *)
(* returns with any other such delay.                                      *)
C20_LateDelayPaysNothing ==
  (pc = "done" /\ kind = "late" /\ dA.dly >= dA.toRet /\ dB.dly >= dB.toRet)
    => outA = outB

(* Retirement after 12 months, a delay of exactly 12 months, months run    *)
(* beyond the delay, a positive monthlySave against none: the same result. *)
C20_Witness ==
  /\ pc = "done" /\ kind = "late"
  /\ dA.toRet > 0 /\ dA.dly = dA.toRet /\ dA.months > dA.dly
  /\ pA.monthlySave > 0 /\ pB.monthlySave = 0
  /\ outA = outB /\ outA.endNom > 0

(* C21: two calls that differ only in annualSpendToday have the same       *)
(* balance, rows and depletion record after every month up to the          *)
(* retirement month, and a depletion in that phase is returned the same by *)
(* both.                                                                   *)
C21_SpendLeavesAccumulationAlone ==
  kind = "spend" =>
    /\ m <= dA.toRet => sA = sB
    /\ (pc = "done" /\ outA.depletedAgeExact # Null
        /\ outA.depletedAgeExact[1]
             <= pA.currentAge + Rnd(dA.toRet * AgeScale, MonthsPerYear))
         => (/\ outB.depletedAgeExact = outA.depletedAgeExact
             /\ outB.depletedAge = outA.depletedAge)

(* The retirement month of two calls with different spends: the same       *)
(* positive balance, and an annual point for it.                           *)
C21_Witness ==
  /\ kind = "spend" /\ pc = "loop" /\ dA.toRet > 0 /\ m = dA.toRet
  /\ pB.annualSpendToday > pA.annualSpendToday /\ pA.annualSpendToday > 0
  /\ sA = sB /\ sA.bal > 0 /\ Len(sA.rows) = 2

(* A call with no spend, no fixed fee, a positive start and contributions  *)
(* that are not negative.                                                  *)
NoDrain(p) ==
  /\ p.annualSpendToday = 0 /\ p.fixedFeeAnnual = 0
  /\ p.startAssets > 0 /\ p.monthlySave >= 0

(* C23: with annualSpendToday = 0 and fixedFeeAnnual = 0 a call with       *)
(* startAssets > 0 (and, as the data model has it, monthlySave >= 0) is    *)
(* never recorded as depleted, whatever the gross rates and fees: the      *)
(* balance stays positive in every month and depletedAgeExact is null.     *)
C23_NoDepletionWithoutDrain ==
  /\ NoDrain(pA) =>
       /\ sA.bal > 0 /\ sA.dep = Null
       /\ pc = "done" => (outA.depletedAgeExact = Null /\ outA.depletedAge = Null)
  /\ NoDrain(pB) =>
       /\ sB.bal > 0 /\ sB.dep = Null
       /\ pc = "done" => (outB.depletedAgeExact = Null /\ outB.depletedAge = Null)

(* A gross return of -150% a year, floored at -99%, with no contribution:  *)
(* the balance shrank in every month and the call was not depleted.        *)
C23_Witness ==
  /\ pc = "done" /\ NoDrain(pB) /\ pB.monthlySave = 0
  /\ pB.preAnnualGross - pB.feeAnnualPre < Rnd(-99 * RateScale, 100)
  /\ dB.toRet >= dB.months /\ dB.months >= MonthsPerYear
  /\ outB.endNom > 0 /\ outB.endNom < pB.startAssets
  /\ outB.depletedAgeExact = Null

-----------------------------------------------------------------------------
(* Further properties of the solver.                                       *)

(* The calls of simulate a run of the solver has made so far are within    *)
(* the static bounds: one call with zero spend, at most 10 calls while hi  *)
(* is doubled, and one call for each bisection step made.                  *)
CallsBounded ==
  /\ calls <= 45
  /\ spc = "zero" => calls = 0
  /\ spc = "bracket" => (calls >= 1 /\ calls <= 10)
  /\ spc = "bracketed" => (calls >= 2 /\ calls <= 11)
  /\ spc = "bisect" => (i >= 1 /\ i <= bisectIters /\ calls - i >= 2
                         /\ calls - i <= 10)
  /\ path = "zero" => calls = 1
  /\ path = "ceiling" => calls = 11
  /\ path = "bisect" => (i = bisectIters /\ calls - bisectIters >= 2
                          /\ calls - bisectIters <= 10)

(* The zero-spend call ran the loop for max(1, round(horizonYears * 12))   *)
(* months: it returned one point for the start and one for each whole      *)
(* year of them.                                                           *)
ZeroRanHorizon ==
  zero # Null =>
    Len(zero.rows)
      = 1 + Max(1, Rnd(HorizonYears(app) * MonthsPerYear, AgeScale))
              \div MonthsPerYear

(* C22: for every input the solver returns, after one zero-spend call, at  *)
(* most 10 feasibility calls while doubling hi from 100,000 and exactly 34 *)
(* bisection calls when the doubling stops below the ceiling, so after no  *)
(* more than 45 calls of simulate, each running max(1, round(horizonYears  *)
(* * 12)) loop steps: the calls stay within these bounds, every step       *)
(* before the return can be taken, and each step is one more call of       *)
(* simulate or the return.                                                 *)
C22_SolverCallsBounded ==
  /\ [](CallsBounded /\ ZeroRanHorizon)
  /\ [](spc # "done" => (AtZero \/ AtWhile \/ AtCeiling \/ AtStep \/ AtEnd))
  /\ [][calls' = calls + 1 \/ (calls' = calls /\ spc' = "done")]_vars

(* A run that doubled hi several times, stopped below the ceiling and      *)
(* returned after its 34 bisection calls.                                  *)
C22_Witness ==
  /\ spc = "done" /\ path = "bisect" /\ i = bisectIters
  /\ calls >= 1 + 3 + bisectIters /\ hi > Cur(hiStart)

(* No contribution is made in month 1: nothing is saved, or the delay is   *)
(* of a month or more, or retirement is immediate.                         *)
NoFirstContribution(a) ==
  \/ a.monthlySave = 0
  \/ WholeMonths(Max(0, a.delayYears)) >= 1
  \/ WholeMonths(a.retirementAge - a.currentAge) = 0

(* C25 as stated, for state within the data model's constraints: with      *)
(* startAssets = 0 and no contribution in month 1 the zero-spend call is   *)
(* recorded as depleted at currentAge + 1/12, and the solver returns 0     *)
(* whatever monthlySave is.                                                *)
C25_EmptyStartMeansZero ==
  (ValidApp(app) /\ app.initialAmount = 0 /\ NoFirstContribution(app)) =>
    /\ zero # Null =>
         zero.depletedAgeExact
           = <<app.currentAge + Rnd(AgeScale, MonthsPerYear)>>
    /\ spc = "done" => ret = <<0>>

-----------------------------------------------------------------------------
(* The component App as the caller of simulate: its numeric state, the     *)
(* restore of a stored state on mount, the three age controls, and the     *)
(* arguments its memoised calls pass to simulate.                          *)
(*                                                                         *)
(* A stored state is parsed JSON, so a field of it can be a finite number, *)
(* Infinity (JSON.parse reads 1e999 as Infinity), or absent; arithmetic on *)
(* such values can give NaN.  A JavaScript number is a record: t is "num"  *)
(* with the value v in the field's unit, "inf" with the sign v, or "nan";  *)
(* t is "absent" for a property that is undefined or null.                 *)

Num(n) == [t |-> "num", v |-> n]
NaN == [t |-> "nan", v |-> 0]
Infinity == [t |-> "inf", v |-> 1]
Absent == [t |-> "absent", v |-> 0]

(* Number.isFinite(x)                                                      *)
IsFinite(x) == x.t = "num"

(* a + b                                                                   *)
JsAdd(a, b) ==
  IF a.t = "nan" \/ b.t = "nan" THEN NaN
  ELSE IF a.t = "inf" /\ b.t = "inf" THEN (IF a.v = b.v THEN a ELSE NaN)
  ELSE IF a.t = "inf" THEN a
  ELSE IF b.t = "inf" THEN b
  ELSE Num(a.v + b.v)

(* a - b                                                                   *)
JsSub(a, b) == JsAdd(a, IF b.t = "nan" THEN NaN ELSE [b EXCEPT !.v = -b.v])

(* a <= b, false when either is NaN                                        *)
JsLe(a, b) ==
  /\ a.t # "nan" /\ b.t # "nan"
  /\ IF a.t = "inf" THEN a.v = -1 \/ (b.t = "inf" /\ b.v = 1)
     ELSE IF b.t = "inf" THEN b.v = 1
     ELSE a.v <= b.v

(* a > b, false when either is NaN                                         *)
JsGt(a, b) == a.t # "nan" /\ b.t # "nan" /\ ~JsLe(a, b)

(* Math.max(a, b) and Math.min(a, b): NaN when either is NaN               *)
JsMax(a, b) ==
  IF a.t = "nan" \/ b.t = "nan" THEN NaN ELSE IF JsLe(a, b) THEN b ELSE a
JsMin(a, b) ==
  IF a.t = "nan" \/ b.t = "nan" THEN NaN ELSE IF JsLe(a, b) THEN a ELSE b

(* x / 100, from percentage points to a fraction                           *)
JsPct(x) == IF x.t = "num" THEN Num(Pct(x.v)) ELSE x

(* const clamp = (v, min, max) =>                                          *)
(*   Math.min(Math.max(Number(v) || 0, min), max)                          *)
clamp(v, min, max) ==
  LET n == IF v.t = "nan" THEN Num(0) ELSE v
  IN JsMin(JsMax(n, min), max)

(* s.field ?? fallback                                                     *)
OrElse(x, fallback) == IF x.t = "absent" THEN fallback ELSE x

(* The useState defaults of the numeric state.                             *)
Defaults ==
  [currentAge |-> Num(40 * Year), retirementAge |-> Num(60 * Year),
   lifeExpectancy |-> Num(90 * Year), initialAmount |-> Num(Cur(200000)),
   monthlySave |-> Num(Cur(1500)), annualSpendToday |-> Num(Cur(60000)),
   delayYears |-> Num(3 * Year), returnPa |-> Num(8 * PctScale),
   postRetRealPa |-> Num((5 * PctScale) \div 2), inflationPa |-> Num(0),
   diyFeePct |-> Num(PctScale \div 5), diyFixed |-> Num(0),
   advisorFeePct |-> Num((6 * PctScale) \div 5),
   advisorFixed |-> Num(Cur(2000))]

(* const applyState = (s) => { ... setX(s.x ?? default) ... }              *)
applyState(s) == [f \in DOMAIN Defaults |-> OrElse(s[f], Defaults[f])]

(* Stored states: every field absent but the ages and monthlySave.         *)
StoredAges == {Absent, Num(0), Num(40 * Year), Num(60 * Year), Num(70 * Year)}
StoredStates ==
  {[f \in DOMAIN Defaults |->
      CASE f = "currentAge" -> c
        [] f = "retirementAge" -> r
        [] f = "monthlySave" -> sv
        [] OTHER -> Absent] :
     c \in StoredAges, r \in StoredAges,
     sv \in {Absent, Num(0), Infinity}}

(* Ages a user types or slides to, in years: whole, fractional, and out of *)
(* the range of every control.                                             *)
TypedAges ==
  {0, 40 * Year - Year \div 2, 41 * Year, 59 * Year, 75 * Year,
   95 * Year, 105 * Year, 120 * Year}

(* const horizonYears = Math.max(1, lifeExpectancy - currentAge)           *)
JsHorizonYears(a) == JsMax(Num(Year), JsSub(a.lifeExpectancy, a.currentAge))

(* const mk = (d, feeP, feeF) => simulate({ ... }): the argument           *)
MkArgs(a, d, feeP, feeF) ==
  [currentAge |-> a.currentAge,
   retirementAge |-> a.retirementAge,
   horizonYears |-> JsHorizonYears(a),
   startAssets |-> JsMax(Num(0), a.initialAmount),
   monthlySave |-> a.monthlySave,
   preAnnualGross |-> JsPct(JsMax(Num(0), a.returnPa)),
   postRealAnnualGross |-> JsPct(a.postRetRealPa),
   inflationAnnual |-> JsPct(JsMax(Num(0), a.inflationPa)),
   annualSpendToday |-> JsMax(Num(0), a.annualSpendToday),
   delayYears |-> d,
   feeAnnualPre |-> JsPct(JsMax(Num(0), feeP)),
   feeAnnualPost |-> JsPct(JsMax(Num(0), feeP)),
   fixedFeeAnnual |-> JsMax(Num(0), feeF)]

(* The calls of mk in the memoised scenarios, as <<d, feeP, feeF>>.        *)
ScenarioCalls(a) ==
  {<<Num(0), a.diyFeePct, Num(0)>>,
   <<JsMax(Num(0), a.delayYears), a.diyFeePct, Num(0)>>,
   <<Num(0), a.diyFeePct, a.diyFixed>>,
   <<Num(0), a.advisorFeePct, a.advisorFixed>>,
   <<Num(0), JsMax(Num(0), a.diyFeePct), JsMax(Num(0), a.diyFixed)>>,
   <<JsMax(Num(0), a.delayYears), JsMax(Num(0), a.diyFeePct),
     JsMax(Num(0), a.diyFixed)>>,
   <<Num(0), JsMax(Num(0), a.advisorFeePct), JsMax(Num(0), a.advisorFixed)>>}

(* The argument of the solver's first call, sim(0).                        *)
SolverArgs(a) ==
  [currentAge |-> a.currentAge,
   retirementAge |-> a.retirementAge,
   horizonYears |-> JsHorizonYears(a),
   startAssets |-> JsMax(Num(0), a.initialAmount),
   monthlySave |-> a.monthlySave,
   preAnnualGross |-> JsPct(JsMax(Num(0), a.returnPa)),
   postRealAnnualGross |-> JsPct(a.postRetRealPa),
   inflationAnnual |-> JsPct(JsMax(Num(0), a.inflationPa)),
   annualSpendToday |-> Num(0),
   delayYears |-> JsMax(Num(0), a.delayYears),
   feeAnnualPre |-> JsPct(JsMax(Num(0), a.diyFeePct)),
   feeAnnualPost |-> JsPct(JsMax(Num(0), a.diyFeePct)),
   fixedFeeAnnual |-> Num(0)]

(* The component before its mount effect: app is the numeric state, pA the *)
(* argument a call of the current render passed to simulate, none yet.  A  *)
(* change of the state starts a new render, whose memoised calls build     *)
(* their arguments afresh.                                                 *)
AppInit ==
  /\ app = Defaults /\ pc = "mount" /\ pA = Null
  /\ pB = Null /\ kind = "none" /\ dA = Null /\ dB = Null
  /\ m = 0 /\ sA = Null /\ sB = Null /\ outA = Null /\ outB = Null
  /\ spc = "idle" /\ zero = Null /\ lo = 0 /\ hi = 0 /\ i = 0
  /\ ret = Null /\ path = "none" /\ calls = 0

AppFrame ==
  UNCHANGED <<pB, kind, dA, dB, m, sA, sB, outA, outB,
              spc, zero, lo, hi, i, ret, path, calls>>

(* The mount effect with a state in the URL parameter or in local storage. *)
MountRestore ==
  /\ pc = "mount"
  /\ \E s \in StoredStates : app' = applyState(s)
  /\ pc' = "ready"
  /\ UNCHANGED pA
  /\ AppFrame

(* The mount effect with nothing stored.                                   *)
MountPlain ==
  /\ pc = "mount"
  /\ pc' = "ready"
  /\ UNCHANGED <<app, pA>>
  /\ AppFrame

(* Current Age: RangePair clamps the input to its min and max, onChange    *)
(* clamps it again and stores it.                                          *)
SetCurrentAge ==
  /\ pc = "ready"
  /\ \E v \in TypedAges :
       LET top == JsSub(app.retirementAge, Num(Year))
           c == clamp(Num(v), Num(0), JsMax(Num(Year), top))
       IN app' = [app EXCEPT !.currentAge = clamp(c, Num(0), top)]
  /\ pA' = Null
  /\ UNCHANGED pc
  /\ AppFrame

(* Retirement Age                                                          *)
SetRetirementAge ==
  /\ pc = "ready"
  /\ \E v \in TypedAges :
       LET low == JsAdd(app.currentAge, Num(Year))
           c == clamp(Num(v), low, Num(100 * Year))
       IN app' = [app EXCEPT !.retirementAge = clamp(c, low, Num(100 * Year))]
  /\ pA' = Null
  /\ UNCHANGED pc
  /\ AppFrame

(* Life Expectancy (age)                                                   *)
SetLifeExpectancy ==
  /\ pc = "ready"
  /\ \E v \in TypedAges :
       LET low == JsAdd(app.retirementAge, Num(Year))
           c == clamp(Num(v), low, Num(110 * Year))
       IN app' = [app EXCEPT !.lifeExpectancy = clamp(c, low, Num(110 * Year))]
  /\ pA' = Null
  /\ UNCHANGED pc
  /\ AppFrame

(* A memoised scenario calls mk, which calls simulate.                     *)
Scenario ==
  /\ pc = "ready"
  /\ \E call \in ScenarioCalls(app) :
       pA' = MkArgs(app, call[1], call[2], call[3])
  /\ UNCHANGED <<pc, app>>
  /\ AppFrame

(* The solver builds p and calls sim(0).                                   *)
SolverCall ==
  /\ pc = "ready"
  /\ pA' = SolverArgs(app)
  /\ UNCHANGED <<pc, app>>
  /\ AppFrame

AppNext ==
  \/ MountRestore \/ MountPlain
  \/ SetCurrentAge \/ SetRetirementAge \/ SetLifeExpectancy
  \/ Scenario \/ SolverCall

AppSpec == AppInit /\ [][AppNext]_vars

(* The component with nothing stored: the defaults, then edits through the *)
(* three age controls only.                                                *)
ControlsNext ==
  \/ MountPlain
  \/ SetCurrentAge \/ SetRetirementAge \/ SetLifeExpectancy
  \/ Scenario \/ SolverCall

ControlsSpec == AppInit /\ [][ControlsNext]_vars

-----------------------------------------------------------------------------
(* Properties of the caller, checked under AppSpec.                        *)

(* C16 as stated: in every state the application reaches, through the age  *)
(* controls or a restored state, the retirementAge passed to simulate is   *)
(* strictly greater than the currentAge passed with it.                    *)
C16_RetirementAfterCurrentAge ==
  pA # Null => JsGt(pA.retirementAge, pA.currentAge)

(* C17 as stated: every numeric field of an argument passed to simulate,   *)
(* by mk or by the solver, is a finite number.                             *)
C17_ArgumentsFinite ==
  pA # Null => \A f \in DOMAIN pA : IsFinite(pA[f])

(* C24 as stated, checked under ControlsSpec: after any sequence of edits  *)
(* through the Current Age, Retirement Age and Life Expectancy controls    *)
(* from the defaults 40 / 60 / 90, lifeExpectancy is strictly greater than *)
(* retirementAge, and in every call of simulate the time to retirement is  *)
(* shorter than the horizon max(1, lifeExpectancy - currentAge).           *)
C24_LifeExpectancyAfterRetirement ==
  /\ JsGt(app.lifeExpectancy, app.retirementAge)
  /\ pA # Null =>
       JsGt(pA.horizonYears, JsSub(pA.retirementAge, pA.currentAge))

=============================================================================
